---- MODULE Spec2Model ----
(***************************************************************************)
(* Model of elementtocsvtool.js: extractImportantElements walks a document *)
(* in eight query passes, appends one record per accepted node to          *)
(* elementsData, filters the records without id or class, and serialises   *)
(* the rest as CSV.                                                        *)
(*                                                                         *)
(* Strings are sequences of one-character strings, so that trim, length,   *)
(* substring, toLowerCase and the quote doubling of the CSV writer are     *)
(* computed character by character.  The document is a sequence of nodes   *)
(* in document (pre)order; every node names its parent by index, 0 being   *)
(* the body.  origin is a history variable: the node every record of       *)
(* elementsData was pushed for.  The download of the file and the two log  *)
(* lines that follow the CSV conversion are left out.                      *)
(***************************************************************************)
EXTENDS Integers, Sequences, FiniteSets

VARIABLES document, pc, i, elementsData, origin, validElementsData, csv

vars == <<document, pc, i, elementsData, origin, validElementsData, csv>>

(***************************************************************************)
(* Bounds of the model and constants of the program.                       *)
(***************************************************************************)
\* number of fragments a document is assembled from
MaxUnits == 2
\* getElementText: text.length > 100, substring(0, 100)
TruncLimit == 100
\* static text pass: text.length < 200
StaticMaxLen == 200

(***************************************************************************)
(* String primitives of the host language.                                 *)
(***************************************************************************)
QUOTE == "\""

WhiteSpace == {" ", "\n", "\t"}

Rep(c, n) == [k \in 1..n |-> c]

UpperCase == <<"A", "B", "C", "D", "E", "F", "G", "H", "I", "J", "K", "L", "M", "N", "O", "P", "Q", "R", "S", "T", "U", "V", "W", "X", "Y", "Z">>
LowerCase == <<"a", "b", "c", "d", "e", "f", "g", "h", "i", "j", "k", "l", "m", "n", "o", "p", "q", "r", "s", "t", "u", "v", "w", "x", "y", "z">>

\* the lower-case letter of every upper-case letter
LowerOf == [c \in {UpperCase[k] : k \in 1..Len(UpperCase)} |->
              LowerCase[CHOOSE k \in 1..Len(UpperCase) : UpperCase[k] = c]]

toLowerCaseChar(c) == IF c \in DOMAIN LowerOf THEN LowerOf[c] ELSE c

\* String.prototype.toLowerCase
toLowerCase(s) == [k \in 1..Len(s) |-> toLowerCaseChar(s[k])]

\* String.prototype.trim: drop the leading and trailing white space
trim(s) ==
  LET n == Len(s)
  IN  IF \A k \in 1..n : s[k] \in WhiteSpace THEN <<>>
      ELSE LET first == CHOOSE k \in 1..n :
                          s[k] \notin WhiteSpace /\ \A m \in 1..(k - 1) : s[m] \in WhiteSpace
               last  == CHOOSE k \in 1..n :
                          s[k] \notin WhiteSpace /\ \A m \in (k + 1)..n : s[m] \in WhiteSpace
           IN  SubSeq(s, first, last)

\* s.substring(0, n)
substring0(s, n) == SubSeq(s, 1, IF n < Len(s) THEN n ELSE Len(s))

\* the enumeration of a set of indices in decreasing order
Descending(S) ==
  [k \in 1..Cardinality(S) |->
     CHOOSE x \in S : Cardinality({y \in S : y > x}) = k - 1]

\* the enumeration of a set of indices in increasing order
Ordered(S) ==
  [k \in 1..Cardinality(S) |->
     CHOOSE x \in S : Cardinality({y \in S : y < x}) = k - 1]

(***************************************************************************)
(* The document tree.  An element exposes what the script reads: tagName,  *)
(* the type attribute, id, className, the for attribute of a label, value, *)
(* placeholder.  className is a string for an HTML element and an object   *)
(* (SVGAnimatedString) for an SVG element, whose tagName keeps its case.   *)
(* A text node carries data.                                               *)
(***************************************************************************)
TEXT_NODE == <<"#", "t", "e", "x", "t">>

Element(tag) ==
  [parent |-> 0, tagName |-> tag, typeAttr |-> <<>>, id |-> <<>>,
   className |-> <<>>, classIsString |-> TRUE, hasFor |-> FALSE,
   htmlFor |-> <<>>, value |-> <<>>, placeholder |-> <<>>, data |-> <<>>]

Text(p, d) == [Element(TEXT_NODE) EXCEPT !.parent = p, !.data = d]

IsText(n) == document[n].tagName = TEXT_NODE

IsElement(n) == ~IsText(n)

\* n lies strictly below a in the tree
RECURSIVE IsDescendant(_, _)
IsDescendant(n, a) ==
  LET p == document[n].parent
  IN  IF p = 0 THEN FALSE ELSE IF p = a THEN TRUE ELSE IsDescendant(p, a)

\* Node.textContent: the data of the text nodes below n, in document order
RECURSIVE TextFrom(_, _)
TextFrom(n, j) ==
  IF j > Len(document) THEN <<>>
  ELSE (IF IsText(j) /\ IsDescendant(j, n) THEN document[j].data ELSE <<>>)
       \o TextFrom(n, j + 1)

textContent(n) == IF IsText(n) THEN document[n].data ELSE TextFrom(n, n + 1)

\* Node.childNodes
childNodes(n) == {j \in 1..Len(document) : document[j].parent = n}

\* a type selector matches the element's name case-insensitively (HTML)
MatchesTag(n, name) == IsElement(n) /\ toLowerCase(document[n].tagName) = name

\* a selector list of type selectors
MatchesTagIn(n, names) ==
  IsElement(n) /\ toLowerCase(document[n].tagName) \in names

\* a selector list of attribute selectors name[type="..."]
MatchesType(n, name, types) ==
  IsElement(n) /\ document[n].typeAttr \in types /\ MatchesTag(n, name)

\* the type property reflects the type attribute, limited to the known values,
\* with the element's default when the attribute is missing
InputTypes ==
  { <<"b", "u", "t", "t", "o", "n">>, <<"s", "u", "b", "m", "i", "t">>, <<"c", "h", "e", "c", "k", "b", "o", "x">>, <<"r", "a", "d", "i", "o">>, <<"t", "e", "x", "t">>, <<"p", "a", "s", "s", "w", "o", "r", "d">>,
    <<"e", "m", "a", "i", "l">>, <<"n", "u", "m", "b", "e", "r">>, <<"s", "e", "a", "r", "c", "h">>, <<"t", "e", "l">>, <<"u", "r", "l">> }

ButtonTypes == { <<"s", "u", "b", "m", "i", "t">>, <<"r", "e", "s", "e", "t">>, <<"b", "u", "t", "t", "o", "n">> }

TypeProperty(n) ==
  LET el == document[n]
  IN  IF el.tagName = <<"I", "N", "P", "U", "T">>
        THEN IF el.typeAttr \in InputTypes THEN el.typeAttr ELSE <<"t", "e", "x", "t">>
      ELSE IF el.tagName = <<"B", "U", "T", "T", "O", "N">>
        THEN IF el.typeAttr \in ButtonTypes THEN el.typeAttr ELSE <<"s", "u", "b", "m", "i", "t">>
      ELSE IF el.tagName = <<"T", "E", "X", "T", "A", "R", "E", "A">> THEN <<"t", "e", "x", "t", "a", "r", "e", "a">>
      ELSE <<>>

\* document.querySelectorAll(...) of the eight passes, in document order
All == 1..Len(document)

buttons ==
  Ordered({n \in All : \/ MatchesTag(n, <<"b", "u", "t", "t", "o", "n">>)
                       \/ MatchesType(n, <<"i", "n", "p", "u", "t">>, { <<"b", "u", "t", "t", "o", "n">>, <<"s", "u", "b", "m", "i", "t">> })})

TextInputTypes ==
  { <<"t", "e", "x", "t">>, <<"p", "a", "s", "s", "w", "o", "r", "d">>, <<"e", "m", "a", "i", "l">>, <<"n", "u", "m", "b", "e", "r">>, <<"s", "e", "a", "r", "c", "h">>, <<"t", "e", "l">>, <<"u", "r", "l">> }

inputs ==
  Ordered({n \in All : \/ MatchesType(n, <<"i", "n", "p", "u", "t">>, TextInputTypes)
                       \/ MatchesTag(n, <<"t", "e", "x", "t", "a", "r", "e", "a">>)})

checkboxesAndRadios ==
  Ordered({n \in All : MatchesType(n, <<"i", "n", "p", "u", "t">>, { <<"c", "h", "e", "c", "k", "b", "o", "x">>, <<"r", "a", "d", "i", "o">> })})

selects == Ordered({n \in All : MatchesTag(n, <<"s", "e", "l", "e", "c", "t">>)})

links == Ordered({n \in All : MatchesTag(n, <<"a">>)})

HeadingTags == { <<"h", "1">>, <<"h", "2">>, <<"h", "3">>, <<"h", "4">>, <<"h", "5">>, <<"h", "6">> }

headings == Ordered({n \in All : MatchesTagIn(n, HeadingTags)})

StaticTags == { <<"p">>, <<"s", "p", "a", "n">>, <<"d", "i", "v">>, <<"l", "a", "b", "e", "l">> }

staticTexts == Ordered({n \in All : MatchesTagIn(n, StaticTags)})

tableHeaders == Ordered({n \in All : MatchesTag(n, <<"t", "h">>)})

\* element.options of a select
options(n) ==
  Ordered({j \in All : MatchesTag(j, <<"o", "p", "t", "i", "o", "n">>) /\ IsDescendant(j, n)})

\* `label[for="${id}"]` is no selector when a quote in the id closes the
\* string early, as in label[for="q"t"]: querySelector throws a SyntaxError
SelectorThrows(id) == \E k \in 1..Len(id) : id[k] = QUOTE

\* document.querySelector(`label[for="${id}"]`): the first match, 0 for null
querySelectorLabel(id) ==
  LET found == {n \in All : /\ MatchesTag(n, <<"l", "a", "b", "e", "l">>)
                            /\ document[n].hasFor
                            /\ document[n].htmlFor = id}
  IN  IF found = {} THEN 0 ELSE CHOOSE n \in found : \A m \in found : n <= m

(***************************************************************************)
(* The two helpers of extractImportantElements.                            *)
(***************************************************************************)
\* an identifier that looks at the class before the id
getElementIdentifierClassFirst(n) ==
  LET element == document[n]
  IN  IF element.classIsString /\ trim(element.className) # <<>>
        THEN [type |-> <<"c", "l", "a", "s", "s">>, value |-> trim(element.className)]
      ELSE IF element.id # <<>>
        THEN [type |-> <<"i", "d">>, value |-> element.id]
      ELSE [type |-> <<"n", "o", "n", "e">>, value |-> <<"n", "o", "-", "i", "d", "-", "o", "r", "-", "c", "l", "a", "s", "s">>]

\* getElementIdentifier(element)
getElementIdentifier(n) ==
  LET element == document[n]
  IN  IF element.id # <<>>
        THEN [type |-> <<"i", "d">>, value |-> element.id]
      ELSE IF /\ element.classIsString
              /\ element.className # <<>>
              /\ trim(element.className) # <<>>
        THEN [type |-> <<"c", "l", "a", "s", "s">>, value |-> trim(element.className)]
      ELSE [type |-> <<"n", "o", "n", "e">>, value |-> <<"n", "o", "-", "i", "d", "-", "o", "r", "-", "c", "l", "a", "s", "s">>]

\* a || b for strings: the first operand unless it is empty
Or(a, b) == IF a # <<>> THEN a ELSE b

\* text.length > 100 ? text.substring(0, 100) + '...' : text
Truncate(text) ==
  IF Len(text) > TruncLimit THEN substring0(text, TruncLimit) \o <<".", ".", ".">> ELSE text

\* Array.from(element.options).map(opt => opt.textContent.trim()).join(', ')
RECURSIVE JoinFrom(_, _)
JoinFrom(opts, k) ==
  IF k > Len(opts) THEN <<>>
  ELSE (IF k > 1 THEN <<",", " ">> ELSE <<>>)
       \o trim(textContent(opts[k])) \o JoinFrom(opts, k + 1)

\* a getElementText that reads the value of a text input, not its placeholder
getElementTextValue(n) ==
  LET element == document[n]
      type    == TypeProperty(n)
      label   == querySelectorLabel(element.id)
  IN  IF element.tagName = <<"I", "N", "P", "U", "T">> THEN
        IF type = <<"b", "u", "t", "t", "o", "n">> \/ type = <<"s", "u", "b", "m", "i", "t">>
          THEN Or(element.value,
                  Or(element.placeholder, <<"[">> \o type \o <<" ", "b", "u", "t", "t", "o", "n", "]">>))
        ELSE IF type = <<"c", "h", "e", "c", "k", "b", "o", "x">> \/ type = <<"r", "a", "d", "i", "o">>
          THEN IF label # 0 THEN trim(textContent(label))
               ELSE <<"[">> \o type \o <<"]">>
        ELSE Or(element.value, <<"[">> \o type \o <<" ", "i", "n", "p", "u", "t", "]">>)
      ELSE IF element.tagName = <<"S", "E", "L", "E", "C", "T">> THEN
        IF label # 0 THEN trim(textContent(label))
        ELSE Truncate(JoinFrom(options(n), 1))
      ELSE IF element.tagName = <<"B", "U", "T", "T", "O", "N">>
        THEN Or(trim(textContent(n)), <<"[", "b", "u", "t", "t", "o", "n", "]">>)
      ELSE IF element.tagName = <<"A">>
        THEN Or(trim(textContent(n)), <<"[", "l", "i", "n", "k", "]">>)
      ELSE Truncate(trim(textContent(n)))

\* getElementText(element); the caller has checked that the label query
\* of the checkbox, radio and select branches does not throw
getElementText(n) ==
  LET element == document[n]
      type    == TypeProperty(n)
      label   == querySelectorLabel(element.id)
  IN  IF element.tagName = <<"I", "N", "P", "U", "T">> THEN
        IF type = <<"b", "u", "t", "t", "o", "n">> \/ type = <<"s", "u", "b", "m", "i", "t">>
          THEN Or(element.value,
                  Or(element.placeholder, <<"[">> \o type \o <<" ", "b", "u", "t", "t", "o", "n", "]">>))
        ELSE IF type = <<"c", "h", "e", "c", "k", "b", "o", "x">> \/ type = <<"r", "a", "d", "i", "o">>
          THEN IF label # 0 THEN trim(textContent(label))
               ELSE <<"[">> \o type \o <<"]">>
        ELSE Or(element.placeholder, <<"[">> \o type \o <<" ", "i", "n", "p", "u", "t", "]">>)
      ELSE IF element.tagName = <<"S", "E", "L", "E", "C", "T">> THEN
        IF label # 0 THEN trim(textContent(label))
        ELSE Truncate(JoinFrom(options(n), 1))
      ELSE IF element.tagName = <<"B", "U", "T", "T", "O", "N">>
        THEN Or(trim(textContent(n)), <<"[", "b", "u", "t", "t", "o", "n", "]">>)
      ELSE IF element.tagName = <<"A">>
        THEN Or(trim(textContent(n)), <<"[", "l", "i", "n", "k", "]">>)
      ELSE Truncate(trim(textContent(n)))

\* getElementText reaches a label query that throws a SyntaxError
getElementTextThrows(n) ==
  LET element == document[n]
      type    == TypeProperty(n)
  IN  /\ \/ element.tagName = <<"I", "N", "P", "U", "T">> /\ type \in { <<"c", "h", "e", "c", "k", "b", "o", "x">>, <<"r", "a", "d", "i", "o">> }
         \/ element.tagName = <<"S", "E", "L", "E", "C", "T">>
      /\ SelectorThrows(element.id)

\* `[type="${type}"]`
TypeSuffix(type) == <<"[", "t", "y", "p", "e", "=", "\"">> \o type \o <<"\"", "]">>

\* the record pushed for a node
Record(elementType, text, identifier) ==
  [element_type |-> elementType, text_content |-> text,
   selector_type |-> identifier.type, selector_value |-> identifier.value]

\* a push without the guard of the pass
PushAlways(keep, n, rec) ==
  /\ elementsData' = Append(elementsData, rec)
  /\ origin' = Append(origin, n)

\* elementsData.push(...) under the guard of the pass
Push(keep, n, rec) ==
  /\ elementsData' = IF keep THEN Append(elementsData, rec) ELSE elementsData
  /\ origin' = IF keep THEN Append(origin, n) ELSE origin

(***************************************************************************)
(* The documents the extraction is run on: every sequence of at most       *)
(* MaxUnits fragments of the pool below, side by side in the body.  A      *)
(* fragment is a sequence of nodes whose parent fields count inside the    *)
(* fragment.                                                               *)
(***************************************************************************)
El(tag, id, class) == [Element(tag) EXCEPT !.id = id, !.className = class]

Input(type, id, class) == [El(<<"I", "N", "P", "U", "T">>, id, class) EXCEPT !.typeAttr = type]

Label(for, class) == [El(<<"L", "A", "B", "E", "L">>, <<>>, class) EXCEPT !.hasFor = TRUE, !.htmlFor = for]

In(p, el) == [el EXCEPT !.parent = p]

\* an element and its one text child
WithText(el, d) == <<el, Text(1, d)>>

Long(n) == Rep("x", n)

UnitPool ==
  << \* 1: buttons
     <<El(<<"B", "U", "T", "T", "O", "N">>, <<"s", "u", "b", "m", "i", "t", "-", "b", "t", "n">>, <<>>), Text(1, <<"S", "u", "b", "m", "i", "t">>),
       El(<<"B", "U", "T", "T", "O", "N">>, <<>>, <<>>),
       [El(<<"B", "U", "T", "T", "O", "N">>, <<>>, <<" ", " ", "b", "t", "n", " ", "p", "r", "i", "m", "a", "r", "y", " ">>) EXCEPT !.typeAttr = <<"b", "u", "t", "t", "o", "n">>],
       Text(4, <<" ", "S", "a", "y", " ", "\"", "h", "i", "\"", " ">>),
       [Input(<<"s", "u", "b", "m", "i", "t">>, <<"g", "o">>, <<"c">>) EXCEPT !.value = <<"G", "o">>],
       Input(<<"b", "u", "t", "t", "o", "n">>, <<>>, <<"b">>)>>,
     \* 2 to 5: text inputs
     <<[Input(<<"t", "e", "x", "t">>, <<"u", "s", "e", "r">>, <<>>) EXCEPT !.placeholder = <<"N", "a", "m", "e">>]>>,
     <<Input(<<"e", "m", "a", "i", "l">>, <<>>, <<"f">>), Input(<<"r", "a", "d", "i", "o">>, <<>>, <<"r">>)>>,
     <<[Input(<<"t", "e", "x", "t">>, <<"q", "\"", "t">>, <<>>) EXCEPT !.placeholder = <<"N", "a", "m", "e">>]>>,
     <<[El(<<"T", "E", "X", "T", "A", "R", "E", "A">>, <<"m", "s", "g">>, <<>>) EXCEPT !.placeholder = <<"M", "e", "s", "s", "a", "g", "e">>],
       Text(1, <<"H", "i", "\n", " ", "t", "h", "e", "r", "e", "\n">>),
       [El(<<"T", "E", "X", "T", "A", "R", "E", "A">>, <<>>, <<"t">>) EXCEPT !.placeholder = <<"N", "o", "t", "e", "s">>]>>,
     \* 6 to 8: labels
     WithText(Label(<<"u", "s", "e", "r">>, <<"l", "b", "l">>), <<" ", "U", "s", "e", "r", " ", "n", "a", "m", "e", " ">>),
     WithText(Label(<<>>, <<"a", "n", "y">>), <<"A", "c", "c", "e", "p", "t">>),
     WithText(Label(<<"u", "s", "e", "r">>, <<>>), <<" ", " ">>),
     \* 9, 10: checkboxes
     <<Input(<<"c", "h", "e", "c", "k", "b", "o", "x">>, <<"a", "g", "r", "e", "e">>, <<>>),
       Label(<<"a", "g", "r", "e", "e">>, <<>>), Text(2, <<"I", " ", "a", "g", "r", "e", "e">>)>>,
     <<Input(<<"c", "h", "e", "c", "k", "b", "o", "x">>, <<"q", "\"", "t">>, <<>>)>>,
     \* 11 to 13: selects
     <<El(<<"S", "E", "L", "E", "C", "T">>, <<"c", "o", "u", "n", "t", "r", "y">>, <<>>),
       In(1, El(<<"O", "P", "T", "I", "O", "N">>, <<>>, <<>>)), Text(2, <<"U", "S">>),
       In(1, El(<<"O", "P", "T", "I", "O", "N">>, <<>>, <<>>)), Text(4, <<" ", "C", "A", " ">>)>>,
     <<El(<<"S", "E", "L", "E", "C", "T">>, <<>>, <<"s">>),
       In(1, El(<<"O", "P", "T", "I", "O", "N">>, <<>>, <<>>)), Text(2, Long(60)),
       In(1, El(<<"O", "P", "T", "I", "O", "N">>, <<>>, <<>>)), Text(4, Long(60)),
       Label(<<"c", "o", "u", "n", "t", "r", "y">>, <<"l", "c">>), Text(6, Long(TruncLimit + 50)),
       El(<<"L", "A", "B", "E", "L">>, <<"l", "1">>, <<>>), Text(8, <<"P", "l", "a", "i", "n">>)>>,
     <<El(<<"S", "E", "L", "E", "C", "T">>, <<"q", "\"", "t">>, <<>>)>>,
     \* 14: links and headings
     <<El(<<"A">>, <<"h", "o", "m", "e">>, <<>>), Text(1, <<"H", "o", "m", "e">>),
       El(<<"A">>, <<>>, <<"x">>),
       El(<<"A">>, <<>>, <<"f", "a", "r">>), Text(4, Long(TruncLimit + 50)),
       [El(<<"a">>, <<>>, <<"i", "c", "o", "n">>) EXCEPT !.classIsString = FALSE],
       Text(6, Long(TruncLimit + 1)),
       El(<<"H", "1">>, <<"t">>, <<"b", "i", "g">>), Text(8, <<" ", "T", "i", "t", "l", "e", " ">>),
       El(<<"H", "2">>, <<>>, <<>>), Text(10, <<"S", "u", "b">>),
       El(<<"H", "3">>, <<"q", "\"", "t">>, <<>>), Text(12, <<"Q", "u", "o", "t", "e", "d">>)>>,
     \* 15: long static text and table headers
     <<El(<<"P">>, <<"l", "o", "n", "g">>, <<>>), Text(1, Long(TruncLimit + 50)),
       El(<<"P">>, <<>>, <<"t", "1", "0", "0">>), Text(3, Long(TruncLimit)),
       El(<<"S", "P", "A", "N">>, <<>>, <<"t", "1", "0", "1">>), Text(5, Long(TruncLimit + 1)),
       El(<<"P">>, <<>>, <<"t", "1", "9", "9">>), Text(7, Long(StaticMaxLen - 1)),
       El(<<"P">>, <<>>, <<"t", "2", "0", "0">>), Text(9, Long(StaticMaxLen)),
       El(<<"T", "H">>, <<"n", "a", "m", "e">>, <<>>), Text(11, <<"N", "a", "m", "e">>),
       El(<<"T", "H">>, <<>>, <<>>), Text(13, <<"A", "g", "e">>),
       El(<<"T", "H">>, <<>>, <<"c", ",", "d">>), Text(15, <<"a", ",", "b", "\n", "c">>)>>,
     \* 16: containers
     <<El(<<"D", "I", "V">>, <<>>, <<"c", "a", "r", "d">>), In(1, El(<<"P">>, <<>>, <<>>)),
       Text(2, <<"H", "e", "l", "l", "o", " ">>), In(2, El(<<"B">>, <<>>, <<>>)), Text(4, <<"W", "o", "r", "l", "d">>),
       El(<<"D", "I", "V">>, <<"w", "r", "a", "p">>, <<>>), Text(6, <<"C", "l", "i", "c", "k", " ">>),
       In(6, El(<<"A">>, <<"l", "n", "k">>, <<>>)), Text(8, <<"h", "e", "r", "e">>),
       El(<<"D", "I", "V">>, <<"f", "o", "r", "m">>, <<>>), Text(10, <<"Y", "o", "u", "r", " ", "n", "a", "m", "e", " ">>),
       In(10, El(<<"I", "N", "P", "U", "T">>, <<>>, <<>>)),
       El(<<"S", "P", "A", "N">>, <<>>, <<"b", "l", "a", "n", "k">>), Text(13, <<" ", "\n", " ">>)>>
  >>

Shift(unit, off) ==
  [k \in 1..Len(unit) |->
     [unit[k] EXCEPT !.parent = IF @ = 0 THEN 0 ELSE @ + off]]

RECURSIVE Assemble(_, _)
Assemble(choice, k) ==
  IF k = 0 THEN <<>>
  ELSE LET before == Assemble(choice, k - 1)
       IN  before \o Shift(UnitPool[choice[k]], Len(before))

Documents ==
  { Assemble(choice, Len(choice)) :
      choice \in UNION { [1..k -> 1..Len(UnitPool)] : k \in 1..MaxUnits } }

(***************************************************************************)
(* The passes.  Every action is one call of a forEach callback, or the     *)
(* end of the loop, which starts the next pass.                            *)
(***************************************************************************)
Init ==
  /\ document \in Documents
  /\ pc = "buttons"
  /\ i = 0
  /\ elementsData = <<>>
  /\ origin = <<>>
  /\ validElementsData = <<>>
  /\ csv = <<>>

\* the loop over list is exhausted: go on with the next statement
EndLoop(list, next) ==
  /\ i >= Len(list)
  /\ pc' = next
  /\ i' = 0
  /\ UNCHANGED <<document, elementsData, origin, validElementsData, csv>>

\* an uncaught exception ends the script
Throw ==
  /\ pc' = "aborted"
  /\ i' = 0
  /\ UNCHANGED <<document, elementsData, origin, validElementsData, csv>>

Step == /\ i' = i + 1
        /\ UNCHANGED <<document, pc, validElementsData, csv>>

CaptureButtons ==
  /\ pc = "buttons"
  /\ LET list == buttons
     IN
       /\ \/ /\ i < Len(list)
             /\ LET button     == list[i + 1]
                    identifier == getElementIdentifier(button)
                    text       == getElementText(button)
                    type       == TypeProperty(button)
                IN  Push(text # <<>>, button,
                         Record(toLowerCase(document[button].tagName)
                                  \o (IF type # <<>> THEN TypeSuffix(type) ELSE <<>>),
                                text, identifier))
             /\ Step
          \/ EndLoop(list, "inputs")

CaptureInputs ==
  /\ pc = "inputs"
  /\ LET list == inputs
     IN
       /\ \/ /\ i < Len(list)
             /\ ~SelectorThrows(document[list[i + 1]].id)
             /\ LET input      == list[i + 1]
                    identifier == getElementIdentifier(input)
                    label      == querySelectorLabel(document[input].id)
                    text       == IF label # 0 THEN trim(textContent(label))
                                  ELSE getElementText(input)
                    type       == TypeProperty(input)
                IN  Push(text # <<>>, input,
                         Record(toLowerCase(document[input].tagName)
                                  \o (IF type # <<>> THEN TypeSuffix(type) ELSE <<>>),
                                text, identifier))
             /\ Step
          \/ /\ i < Len(list)
             /\ SelectorThrows(document[list[i + 1]].id)
             /\ Throw
          \/ EndLoop(list, "checkboxes")

CaptureCheckboxesAndRadios ==
  /\ pc = "checkboxes"
  /\ LET list == checkboxesAndRadios
     IN
       /\ \/ /\ i < Len(list)
             /\ ~SelectorThrows(document[list[i + 1]].id)
             /\ LET input      == list[i + 1]
                    identifier == getElementIdentifier(input)
                    label      == querySelectorLabel(document[input].id)
                    text       == IF label # 0 THEN trim(textContent(label))
                                  ELSE getElementText(input)
                IN  Push(text # <<>>, input,
                         Record(toLowerCase(document[input].tagName)
                                  \o TypeSuffix(TypeProperty(input)),
                                text, identifier))
             /\ Step
          \/ /\ i < Len(list)
             /\ SelectorThrows(document[list[i + 1]].id)
             /\ Throw
          \/ EndLoop(list, "selects")

CaptureSelects ==
  /\ pc = "selects"
  /\ LET list == selects
     IN
       /\ \/ /\ i < Len(list)
             /\ ~getElementTextThrows(list[i + 1])
             /\ LET select     == list[i + 1]
                    identifier == getElementIdentifier(select)
                    text       == getElementText(select)
                IN  Push(text # <<>>, select, Record(<<"s", "e", "l", "e", "c", "t">>, text, identifier))
             /\ Step
          \/ /\ i < Len(list)
             /\ getElementTextThrows(list[i + 1])
             /\ Throw
          \/ EndLoop(list, "links")

CaptureLinks ==
  /\ pc = "links"
  /\ LET list == links
     IN
       /\ \/ /\ i < Len(list)
             /\ LET link       == list[i + 1]
                    identifier == getElementIdentifier(link)
                    text       == getElementText(link)
                IN  Push(text # <<>> /\ text # <<"[", "l", "i", "n", "k", "]">>, link,
                         Record(<<"a">>, text, identifier))
             /\ Step
          \/ EndLoop(list, "headings")

CaptureHeadings ==
  /\ pc = "headings"
  /\ LET list == headings
     IN
       /\ \/ /\ i < Len(list)
             /\ LET heading    == list[i + 1]
                    identifier == getElementIdentifier(heading)
                    text       == trim(textContent(heading))
                IN  Push(text # <<>>, heading,
                         Record(toLowerCase(document[heading].tagName), text, identifier))
             /\ Step
          \/ EndLoop(list, "staticTexts")

\* the same list without the links
IsImportantButLinks(n) ==
  MatchesTagIn(n, { <<"b", "u", "t", "t", "o", "n">>, <<"i", "n", "p", "u", "t">>, <<"s", "e", "l", "e", "c", "t">> } \cup HeadingTags)

\* an element of 'button, input, select, a, h1, h2, h3, h4, h5, h6'
IsImportant(n) ==
  MatchesTagIn(n, { <<"b", "u", "t", "t", "o", "n">>, <<"i", "n", "p", "u", "t">>, <<"s", "e", "l", "e", "c", "t">>, <<"a">> } \cup HeadingTags)

CaptureStaticTexts ==
  /\ pc = "staticTexts"
  /\ LET list == staticTexts
     IN
       /\ \/ /\ i < Len(list)
             /\ LET element       == list[i + 1]
                    hasDirectText == \E node \in childNodes(element) :
                                        IsText(node) /\ trim(textContent(node)) # <<>>
                    identifier    == getElementIdentifier(element)
                    text          == trim(textContent(element))
                    containsImportantElements ==
                      \E d \in All : IsDescendant(d, element) /\ IsImportant(d)
                IN  Push(/\ hasDirectText
                         /\ text # <<>> /\ Len(text) > 0 /\ Len(text) < StaticMaxLen
                         /\ ~containsImportantElements,
                         element,
                         Record(toLowerCase(document[element].tagName), text, identifier))
             /\ Step
          \/ EndLoop(list, "tableHeaders")

CaptureTableHeaders ==
  /\ pc = "tableHeaders"
  /\ LET list == tableHeaders
     IN
       /\ \/ /\ i < Len(list)
             /\ LET th         == list[i + 1]
                    identifier == getElementIdentifier(th)
                    text       == trim(textContent(th))
                IN  Push(text # <<>>, th, Record(<<"t", "h">>, text, identifier))
             /\ Step
          \/ EndLoop(list, "filter")

(***************************************************************************)
(* Filtering and the CSV writer.                                           *)
(***************************************************************************)
HEADER == <<"E", "l", "e", "m", "e", "n", "t", " ", "T", "y", "p", "e", ",", "T", "e", "x", "t", " ", "C", "o", "n", "t", "e", "n", "t", ",", "S", "e", "l", "e", "c", "t", "o", "r", " ", "T", "y", "p", "e", ",", "S", "e", "l", "e", "c", "t", "o", "r", " ", "V", "a", "l", "u", "e", "\n">>

\* a filter that keeps only the records located by id
IsValidIdOnly(item) == item.selector_type = <<"i", "d">>

IsValid(item) == item.selector_type # <<"n", "o", "n", "e">>

\* s.replace(/"/g, '""')
\* a writer that leaves the quotes of a field as they are
replaceNothing(s) == s

RECURSIVE replaceRange(_, _, _)
replaceRange(s, a, b) ==
  IF a > b THEN <<>>
  ELSE IF a = b THEN (IF s[a] = QUOTE THEN <<QUOTE, QUOTE>> ELSE <<s[a]>>)
  ELSE LET m == (a + b) \div 2
       IN  replaceRange(s, a, m) \o replaceRange(s, m + 1, b)

replaceQuotes(s) == replaceRange(s, 1, Len(s))

\* `"${field.replace(/"/g, '""')}"`
Quoted(field) == <<QUOTE>> \o replaceQuotes(field) \o <<QUOTE>>

\* `${elementType},${textContent},${selectorType},${selectorValue}\n`
Row(item) ==
  Quoted(item.element_type) \o <<",">> \o Quoted(item.text_content) \o <<",">>
  \o Quoted(item.selector_type) \o <<",">> \o Quoted(item.selector_value) \o <<"\n">>

\* const validElementsData = elementsData.filter(...); let csv = header
Filter ==
  /\ pc = "filter"
  /\ validElementsData' = SelectSeq(elementsData, IsValid)
  /\ csv' = HEADER
  /\ pc' = "csv"
  /\ i' = 0
  /\ UNCHANGED <<document, elementsData, origin>>

\* validElementsData.forEach(item => csv += row), then the return
WriteCsv ==
  /\ pc = "csv"
  /\ \/ /\ i < Len(validElementsData)
        /\ csv' = csv \o Row(validElementsData[i + 1])
        /\ i' = i + 1
        /\ UNCHANGED <<document, pc, elementsData, origin, validElementsData>>
     \/ /\ i >= Len(validElementsData)
        /\ pc' = "done"
        /\ i' = 0
        /\ UNCHANGED <<document, elementsData, origin, validElementsData, csv>>

Next ==
  \/ CaptureButtons
  \/ CaptureInputs
  \/ CaptureCheckboxesAndRadios
  \/ CaptureSelects
  \/ CaptureLinks
  \/ CaptureHeadings
  \/ CaptureStaticTexts
  \/ CaptureTableHeaders
  \/ Filter
  \/ WriteCsv

Spec == Init /\ [][Next]_vars

(***************************************************************************)
(* A reader of CSV text, used to state what the written file means: the    *)
(* rows and fields a CSV reader gets back from it.  A field is either      *)
(* quoted (it ends at the first quote that is not the first half of a      *)
(* doubled quote) or plain (it ends at the next comma or newline).         *)
(***************************************************************************)
Range(f) == {f[k] : k \in DOMAIN f}

QuotesIn(s, a, b) == Cardinality({m \in a..b : s[m] = QUOTE})

\* the quote closing the quoted field opened at k, 0 if there is none
ClosingQuote(s, k) ==
  LET closes(e) == /\ s[e] = QUOTE
                   /\ QuotesIn(s, k + 1, e - 1) % 2 = 0
                   /\ (e = Len(s) \/ s[e + 1] # QUOTE)
  IN  IF \E e \in (k + 1)..Len(s) : closes(e)
      THEN CHOOSE e \in (k + 1)..Len(s) :
             closes(e) /\ \A m \in (k + 1)..(e - 1) : ~closes(m)
      ELSE 0

\* the end of the plain field starting at k: the next separator, 0 if none
PlainEnd(s, k) ==
  LET ends(e) == s[e] \in {",", "\n"}
  IN  IF \E e \in k..Len(s) : ends(e)
      THEN CHOOSE e \in k..Len(s) : ends(e) /\ \A m \in k..(e - 1) : ~ends(m)
      ELSE 0

\* the content of a quoted field: every doubled quote read as one quote,
\* that is, without the second quote of every pair
RECURSIVE UnescapeRange(_, _, _)
UnescapeRange(s, a, b) ==
  IF a > b THEN <<>>
  ELSE IF a = b
    THEN (IF s[a] = QUOTE /\ QuotesIn(s, 1, a) % 2 = 0 THEN <<>> ELSE <<s[a]>>)
  ELSE LET m == (a + b) \div 2
       IN  UnescapeRange(s, a, m) \o UnescapeRange(s, m + 1, b)

Unescape(s) == UnescapeRange(s, 1, Len(s))

\* the fields of the row that continues at position k: next is the position
\* after its newline, 0 when the text is cut inside the row or a quoted field
\* is followed by something other than a separator
RECURSIVE ReadRow(_, _, _)
ReadRow(s, k, row) ==
  IF k > Len(s) THEN [next |-> 0, row |-> row]
  ELSE
    LET quoted == s[k] = QUOTE
        close  == ClosingQuote(s, k)
        e      == IF quoted THEN (IF close = 0 \/ close = Len(s) THEN 0 ELSE close + 1)
                  ELSE PlainEnd(s, k)
        field  == IF quoted
                  THEN [value |-> Unescape(SubSeq(s, k + 1, close - 1)), quoted |-> TRUE]
                  ELSE [value |-> SubSeq(s, k, e - 1), quoted |-> FALSE]
    IN  IF e = 0 THEN [next |-> 0, row |-> row]
        ELSE IF s[e] = "," THEN ReadRow(s, e + 1, Append(row, field))
        ELSE IF s[e] = "\n" THEN [next |-> e + 1, row |-> Append(row, field)]
        ELSE [next |-> 0, row |-> row]

\* the rows read from position k on
RECURSIVE ReadFrom(_, _, _)
ReadFrom(s, k, rows) ==
  IF k > Len(s) THEN [ok |-> TRUE, rows |-> rows]
  ELSE LET r == ReadRow(s, k, <<>>)
       IN  IF r.next = 0 THEN [ok |-> FALSE, rows |-> rows]
           ELSE ReadFrom(s, r.next, Append(rows, r.row))

ReadCsv(s) == ReadFrom(s, 1, <<>>)

Values(row) == [k \in 1..Len(row) |-> row[k].value]

\* the four fields of a record, in the order of the columns
FieldsOf(item) ==
  <<item.element_type, item.text_content, item.selector_type, item.selector_value>>

\* t is s without its leading and trailing white space
IsTrimOf(t, s) ==
  /\ t # <<>> => t[1] \notin WhiteSpace /\ t[Len(t)] \notin WhiteSpace
  /\ \E a \in 0..(Len(s) - Len(t)) :
       /\ SubSeq(s, a + 1, a + Len(t)) = t
       /\ \A m \in 1..a : s[m] \in WhiteSpace
       /\ \A m \in (a + Len(t) + 1)..Len(s) : s[m] \in WhiteSpace

(***************************************************************************)
(* C1                                                                      *)
(***************************************************************************)
HasSelector(item) == item.selector_type \in { <<"i", "d">>, <<"c", "l", "a", "s", "s">> }

\* C1: the data rows of the CSV are exactly the collected records whose
\* selector kind is not 'none', in the order they were collected: no row of
\* kind 'none' is written and no record of kind 'id' or 'class' is dropped.
C1_RowsAreIdentifiedRecords ==
  pc = "done" =>
    LET read == ReadCsv(csv)
        kept == SelectSeq(elementsData, HasSelector)
    IN  /\ read.ok
        /\ Len(read.rows) = 1 + Len(kept)
        /\ \A k \in 1..Len(kept) : Values(read.rows[k + 1]) = FieldsOf(kept[k])
        /\ \A k \in 2..Len(read.rows) : Values(read.rows[k])[3] # <<"n", "o", "n", "e">>

\* a finished run that collected records of kind 'none', 'id' and 'class'
C1_Witness ==
  /\ pc = "done"
  /\ \E k \in 1..Len(elementsData) : elementsData[k].selector_type = <<"n", "o", "n", "e">>
  /\ \E k \in 1..Len(elementsData) : elementsData[k].selector_type = <<"i", "d">>
  /\ \E k \in 1..Len(elementsData) : elementsData[k].selector_type = <<"c", "l", "a", "s", "s">>

(***************************************************************************)
(* C2                                                                      *)
(***************************************************************************)
\* the node has a class string that is not blank
HasClassString(el) ==
  el.classIsString /\ \E m \in 1..Len(el.className) : el.className[m] \notin WhiteSpace

IdentifierLaw(el, kind, value) ==
  /\ el.id # <<>> => kind = <<"i", "d">> /\ value = el.id
  /\ el.id = <<>> /\ HasClassString(el) =>
       kind = <<"c", "l", "a", "s", "s">> /\ IsTrimOf(value, el.className)
  /\ el.id = <<>> /\ ~HasClassString(el) =>
       kind = <<"n", "o", "n", "e">> /\ value = <<"n", "o", "-", "i", "d", "-", "o", "r", "-", "c", "l", "a", "s", "s">>

\* C2: getElementIdentifier gives kind 'id' and the id for every node with a
\* non-empty id, whatever its class; otherwise kind 'class' and the trimmed
\* class string when that is non-empty; otherwise kind 'none' and the
\* sentinel 'no-id-or-class'.  It is stated of every element of the document
\* (once per document, which no action changes) and of every record.
C2_IdentifierResolution ==
  /\ pc = "buttons" /\ i = 0 =>
     \A n \in All : IsElement(n) =>
          LET identifier == getElementIdentifier(n)
          IN  IdentifierLaw(document[n], identifier.type, identifier.value)
  /\ \A k \in 1..Len(elementsData) :
       IdentifierLaw(document[origin[k]],
                     elementsData[k].selector_type, elementsData[k].selector_value)

\* records of a node with id and class, of a node whose class string has
\* white space around it, and of a node without a class string
C2_Witness ==
  /\ \E k \in 1..Len(elementsData) :
       /\ document[origin[k]].id # <<>>
       /\ HasClassString(document[origin[k]])
  /\ \E k \in 1..Len(elementsData) :
       /\ elementsData[k].selector_type = <<"c", "l", "a", "s", "s">>
       /\ elementsData[k].selector_value # document[origin[k]].className
  /\ \E k \in 1..Len(elementsData) :
       /\ elementsData[k].selector_type = <<"n", "o", "n", "e">>
       /\ document[origin[k]].className # <<>>

(***************************************************************************)
(* C3                                                                      *)
(***************************************************************************)
\* C3: at every point of the extraction no collected record has an empty
\* text content, and no row of the CSV has an empty text field.
C3_NoEmptyText ==
  /\ \A k \in 1..Len(elementsData) : elementsData[k].text_content # <<>>
  /\ \A k \in 1..Len(validElementsData) : validElementsData[k].text_content # <<>>
  /\ pc = "done" =>
       LET read == ReadCsv(csv)
       IN  \A k \in 2..Len(read.rows) : Values(read.rows[k])[2] # <<>>

\* a finished run that wrote rows and skipped a text area without text
C3_Witness ==
  /\ pc = "done"
  /\ Len(validElementsData) > 0
  /\ \E n \in Range(inputs) : n \notin Range(origin) /\ trim(textContent(n)) = <<>>

(***************************************************************************)
(* C4                                                                      *)
(***************************************************************************)
\* the category of a node: the place of its pass in the fixed order
CategoryOf(n) ==
  LET el   == document[n]
      name == toLowerCase(el.tagName)
  IN  IF name = <<"b", "u", "t", "t", "o", "n">> THEN 1
      ELSE IF name = <<"i", "n", "p", "u", "t">> /\ el.typeAttr \in { <<"b", "u", "t", "t", "o", "n">>, <<"s", "u", "b", "m", "i", "t">> } THEN 1
      ELSE IF name = <<"i", "n", "p", "u", "t">> /\ el.typeAttr \in { <<"c", "h", "e", "c", "k", "b", "o", "x">>, <<"r", "a", "d", "i", "o">> } THEN 3
      ELSE IF name = <<"i", "n", "p", "u", "t">> \/ name = <<"t", "e", "x", "t", "a", "r", "e", "a">> THEN 2
      ELSE IF name = <<"s", "e", "l", "e", "c", "t">> THEN 4
      ELSE IF name = <<"a">> THEN 5
      ELSE IF name \in { <<"h", "1">>, <<"h", "2">>, <<"h", "3">>, <<"h", "4">>, <<"h", "5">>, <<"h", "6">> } THEN 6
      ELSE IF name \in { <<"p">>, <<"s", "p", "a", "n">>, <<"d", "i", "v">>, <<"l", "a", "b", "e", "l">> } THEN 7
      ELSE 8

OrderedByCategory ==
  \A k, m \in 1..Len(elementsData) :
    k < m => \/ CategoryOf(origin[k]) < CategoryOf(origin[m])
             \/ /\ CategoryOf(origin[k]) = CategoryOf(origin[m])
                /\ origin[k] < origin[m]

AppendOnly ==
  /\ Len(elementsData') >= Len(elementsData)
  /\ SubSeq(elementsData', 1, Len(elementsData)) = elementsData

\* C4: records are only ever appended, never changed or removed, and they
\* stand in the order of the categories (buttons, text inputs, checkboxes
\* and radios, selects, links, headings, generic text, table headers), the
\* records of one category in the document order of their nodes.
C4_AppendOnlyInCategoryOrder == []OrderedByCategory /\ [][AppendOnly]_vars

\* a finished run with records of three categories, two of them of one
C4_Witness ==
  /\ pc = "done"
  /\ \E k, m \in 1..Len(elementsData) :
       k < m /\ CategoryOf(origin[k]) = CategoryOf(origin[m])
  /\ Cardinality({CategoryOf(origin[k]) : k \in 1..Len(elementsData)}) >= 3

(***************************************************************************)
(* C5                                                                      *)
(***************************************************************************)
\* the first label whose for attribute is the id of n, 0 if there is none
LabelOf(n) ==
  LET ls == {l \in All : /\ toLowerCase(document[l].tagName) = <<"l", "a", "b", "e", "l">>
                         /\ document[l].hasFor
                         /\ document[l].htmlFor = document[n].id}
  IN  IF ls = {} THEN 0 ELSE CHOOSE l \in ls : \A m \in ls : l <= m

\* the text of the options of a select, joined by ', '
OptionText(n) == JoinFrom(options(n), 1)

Cut(text) ==
  IF Len(text) > 100 THEN SubSeq(text, 1, 100) \o <<".", ".", ".">> ELSE text

\* C5: the record of a generic element (p, span, div, label) or of a select
\* carries the derived text cut to its first 100 characters and '...' when
\* it is longer than 100 characters, and unchanged otherwise.
C5_TruncationLaw ==
  \A k \in 1..Len(elementsData) :
    LET n == origin[k]
    IN  /\ n \in Range(staticTexts) =>
             elementsData[k].text_content = Cut(trim(textContent(n)))
        /\ n \in Range(selects) =>
             elementsData[k].text_content =
               Cut(IF LabelOf(n) # 0 THEN trim(textContent(LabelOf(n)))
                   ELSE OptionText(n))

(***************************************************************************)
(* C6                                                                      *)
(***************************************************************************)
HeaderLine == <<"E", "l", "e", "m", "e", "n", "t", " ", "T", "y", "p", "e", ",", "T", "e", "x", "t", " ", "C", "o", "n", "t", "e", "n", "t", ",", "S", "e", "l", "e", "c", "t", "o", "r", " ", "T", "y", "p", "e", ",", "S", "e", "l", "e", "c", "t", "o", "r", " ", "V", "a", "l", "u", "e">>

HeaderFields ==
  << <<"E", "l", "e", "m", "e", "n", "t", " ", "T", "y", "p", "e">>, <<"T", "e", "x", "t", " ", "C", "o", "n", "t", "e", "n", "t">>, <<"S", "e", "l", "e", "c", "t", "o", "r", " ", "T", "y", "p", "e">>, <<"S", "e", "l", "e", "c", "t", "o", "r", " ", "V", "a", "l", "u", "e">> >>

\* C6: the CSV starts with the header row, followed by one row per kept
\* record; every row ends with a newline and has four comma-separated
\* fields, every field of a data row stands in double quotes with its
\* quotes doubled, and reading the row gives back the four field values.
C6_CsvFormat ==
  /\ pc \in {"csv", "done"} =>
       /\ SubSeq(csv, 1, Len(HeaderLine) + 1) = HeaderLine \o <<"\n">>
       /\ csv[Len(csv)] = "\n"
  /\ pc = "done" =>
       LET read == ReadCsv(csv)
       IN  /\ read.ok
           /\ Len(read.rows) = 1 + Len(validElementsData)
           /\ Values(read.rows[1]) = HeaderFields
           /\ \A k \in 1..Len(validElementsData) :
                /\ Len(read.rows[k + 1]) = 4
                /\ \A f \in 1..4 : read.rows[k + 1][f].quoted
                /\ Values(read.rows[k + 1]) = FieldsOf(validElementsData[k])

\* a finished file with a row whose text holds a quote and a row whose text
\* holds a comma and a newline
C6_Witness ==
  /\ pc = "done"
  /\ \E k \in 1..Len(validElementsData) :
       QUOTE \in Range(validElementsData[k].text_content)
  /\ \E k \in 1..Len(validElementsData) :
       {",", "\n"} \subseteq Range(validElementsData[k].text_content)

(***************************************************************************)
(* C7                                                                      *)
(***************************************************************************)
\* some label names the non-empty id of n in its for attribute
Associated(n) ==
  /\ document[n].id # <<>>
  /\ \E l \in All : /\ toLowerCase(document[l].tagName) = <<"l", "a", "b", "e", "l">>
                    /\ document[l].hasFor
                    /\ document[l].htmlFor = document[n].id

\* C7: a checkbox, radio or select gets the text of a label only when a
\* label's for attribute equals its own non-empty id; without such a label
\* (in particular without an id) a checkbox or radio gets '[checkbox]' or
\* '[radio]', and a select the joined text of its options.
C7_LabelNeedsMatchingId ==
  /\ \A k \in 1..Len(elementsData) :
       LET n == origin[k]
       IN  /\ n \in Range(checkboxesAndRadios) /\ ~Associated(n) =>
                elementsData[k].text_content = <<"[">> \o document[n].typeAttr \o <<"]">>
           /\ n \in Range(selects) /\ ~Associated(n) =>
                elementsData[k].text_content = Cut(OptionText(n))
  /\ pc = "done" =>
       \A n \in Range(checkboxesAndRadios) : ~Associated(n) => n \in Range(origin)

(***************************************************************************)
(* C8                                                                      *)
(***************************************************************************)
\* the placeholder, or else the bracketed name of the input type
PlaceholderOrFallback(n) ==
  IF document[n].placeholder # <<>> THEN document[n].placeholder
  ELSE <<"[">> \o TypeProperty(n) \o <<" ", "i", "n", "p", "u", "t", "]">>

InputText(n) ==
  IF LabelOf(n) # 0 THEN trim(textContent(LabelOf(n)))
  ELSE IF document[n].tagName = <<"I", "N", "P", "U", "T">> THEN PlaceholderOrFallback(n)
  ELSE Cut(trim(textContent(n)))

C9_ButtonElementType ==
  \A k \in 1..Len(elementsData) :
    LET n  == origin[k]
        el == document[n]
    IN  n \in Range(buttons) =>
          /\ elementsData[k].element_type =
               toLowerCase(el.tagName)
                 \o (IF el.tagName = <<"I", "N", "P", "U", "T">>
                     THEN <<"[", "t", "y", "p", "e", "=", "\"">> \o el.typeAttr \o <<"\"", "]">> ELSE <<>>)
          /\ ( /\ el.tagName = <<"B", "U", "T", "T", "O", "N">>
               /\ el.id = <<"s", "u", "b", "m", "i", "t", "-", "b", "t", "n">>
               /\ el.typeAttr = <<>>
               /\ textContent(n) = <<"S", "u", "b", "m", "i", "t">> ) =>
               FieldsOf(elementsData[k]) =
                 << <<"b", "u", "t", "t", "o", "n">>, <<"S", "u", "b", "m", "i", "t">>, <<"i", "d">>, <<"s", "u", "b", "m", "i", "t", "-", "b", "t", "n">> >>

(***************************************************************************)
(* C10                                                                     *)
(***************************************************************************)
\* (a) a direct child of n is a text node that is not blank
HasDirectText(n) ==
  \E c \in All : /\ document[c].parent = n
                 /\ IsText(c)
                 /\ \E m \in 1..Len(document[c].data) :
                      document[c].data[m] \notin WhiteSpace

\* (b) the trimmed text of n is not empty and shorter than 200 characters
HasShortText(n) ==
  LET t == trim(textContent(n))
  IN  IsTrimOf(t, textContent(n)) /\ Len(t) >= 1 /\ Len(t) <= 199

\* (c) no button, input, select, link or heading lies below n
HasNoControlBelow(n) ==
  \A d \in All :
    IsDescendant(d, n) =>
      toLowerCase(document[d].tagName) \notin
        { <<"b", "u", "t", "t", "o", "n">>, <<"i", "n", "p", "u", "t">>, <<"s", "e", "l", "e", "c", "t">>, <<"a">>,
          <<"h", "1">>, <<"h", "2">>, <<"h", "3">>, <<"h", "4">>, <<"h", "5">>, <<"h", "6">> }

\* <div class="card"><p>Hello <b>World</b></p></div> stands at n
IsCard(n) ==
  /\ n + 4 <= Len(document)
  /\ document[n].tagName = <<"D", "I", "V">> /\ document[n].className = <<"c", "a", "r", "d">>
  /\ document[n + 1].tagName = <<"P">> /\ document[n + 1].parent = n
  /\ document[n + 2].data = <<"H", "e", "l", "l", "o", " ">> /\ document[n + 2].parent = n + 1
  /\ document[n + 3].tagName = <<"B">> /\ document[n + 3].parent = n + 1
  /\ document[n + 4].data = <<"W", "o", "r", "l", "d">> /\ document[n + 4].parent = n + 3
  /\ \A c \in All : IsDescendant(c, n) => c \in (n + 1)..(n + 4)

\* C10: the generic-text pass appends a record for a p, span, div or label
\* exactly when (a) a direct child is a non-blank text node, (b) its
\* trimmed text is non-empty and shorter than 200 characters, and (c) it has
\* no button, input, select, link or heading below it; of
\* <div class="card"><p>Hello <b>World</b></p></div> the div gives no
\* record and the p gives one.
C10_GenericTextPass ==
  pc = "done" =>
    /\ \A n \in Range(staticTexts) :
         n \in Range(origin) <=>
           HasDirectText(n) /\ HasShortText(n) /\ HasNoControlBelow(n)
    /\ \A n \in All :
         IsElement(n) /\ IsCard(n) =>
           /\ n \notin Range(origin)
           /\ \E k \in 1..Len(elementsData) :
                /\ origin[k] = n + 1
                /\ elementsData[k].text_content = <<"H", "e", "l", "l", "o", " ", "W", "o", "r", "l", "d">>

\* a finished run over the card, a text of 199 and one of 200 characters,
\* and a div with a link below it
C10_Witness ==
  /\ pc = "done"
  /\ \E n \in All : IsElement(n) /\ IsCard(n)
  /\ \E n \in Range(staticTexts) :
       n \in Range(origin) /\ Len(trim(textContent(n))) = 199
  /\ \E n \in Range(staticTexts) :
       n \notin Range(origin) /\ Len(trim(textContent(n))) = 200
  /\ \E n \in Range(staticTexts) :
       n \notin Range(origin) /\ HasDirectText(n) /\ ~HasNoControlBelow(n)

====
